---- MODULE Spec2Model ----
(***************************************************************************)
(* Navigation state machine of autonomy_repo/scripts/navigator.py          *)
(* (class BaseNavigator): goal requests, map updates and control ticks     *)
(* over the modes IDLE / ALIGN / TRACK / PARK.                             *)
(*                                                                         *)
(* Units.  Lengths are in grid cells of plan_resolution (0.1 m), angles in *)
(* hundredths of a radian, time in the time a robot at V_max needs for one *)
(* cell.  The world is a corridor of cells along x (y = 0); paths returned *)
(* by the path search are straight, evenly spaced runs of cells, for which *)
(* the interpolating cubic spline is the straight line through them.       *)
(***************************************************************************)
EXTENDS Integers, Sequences, FiniteSets, TLC

VARIABLES mode, is_planned, plan_start_time, plan, goal, occupancy,
          state, V_prev, t_prev, om_prev, now,
          op, arg, out, cmd, rpre, rpost, tin, raised

vars == <<mode, is_planned, plan_start_time, plan, goal, occupancy,
          state, V_prev, t_prev, om_prev, now,
          op, arg, out, cmd, rpre, rpost, tin, raised>>

-----------------------------------------------------------------------------
(* Bounds of the model *)

MaxTime == 4
MaxV == 2
\* plan construction on its own: waypoints per path, cells between waypoints
MaxWaypoints == 5
MaxStep == 3

(* Parameters of the node *)

theta_start_thresh == 5
plan_thresh == 3
near_thresh == 1
at_thresh_theta == 2
V_max == 1
V_PREV_THRES == 1
kp == 2
Pi == 314

(* Optional values: None is the empty sequence, a present value v is <<v>> *)
None == <<>>
Some(v) == <<v>>
Val(o) == o[1]

Abs(a) == IF a < 0 THEN -a ELSE a
Max(a, b) == IF a > b THEN a ELSE b

NavMode == {"IDLE", "ALIGN", "TRACK", "PARK"}

(* Inputs of the environment *)
Xs == {0, 2, 5}
Thetas == {3, 10}
Poses == [x : Xs, y : {0}, theta : Thetas]
Goals == {[x |-> 5, y |-> 0, theta |-> 0], [x |-> 0, y |-> 0, theta |-> Pi]}
Cell(x) == [x |-> x, y |-> 0]
Maps == {{}, {Cell(2)}}
Accels == {0, 1}
Omegas == {0, 1}

-----------------------------------------------------------------------------
(* Library functions *)

\* wrap an angle to [-pi, pi)
wrap_angle(a) == ((a + Pi) % (2 * Pi)) - Pi

\* square of the Euclidean distance between two poses
distance_linear_sq(a, b) == (a.x - b.x) * (a.x - b.x) + (a.y - b.y) * (a.y - b.y)

distance_angular(a, b) == Abs(wrap_angle(a.theta - b.theta))

\* occupancy.is_free(s): the cell is not among the occupied cells of the grid
is_free(occ, s) == [x |-> s.x, y |-> s.y] \notin occ

\* arctan2 of a velocity vector along one of the axes
arctan2(dy, dx) ==
    IF dy = 0 THEN (IF dx >= 0 THEN 0 ELSE Pi)
    ELSE IF dy > 0 THEN Pi \div 2 ELSE -(Pi \div 2)

-----------------------------------------------------------------------------
(* The path search: cells from the start cell to the goal cell along the    *)
(* corridor, found when every cell after the start is free; <<>> otherwise. *)

RECURSIVE Run(_, _)
Run(a, b) ==
    IF a = b THEN <<Cell(a)>>
    ELSE <<Cell(a)>> \o Run(IF a < b THEN a + 1 ELSE a - 1, b)

AStarSolve(st, g, occ) ==
    LET p == Run(st.x, g.x)
    IN  IF st.y = 0 /\ g.y = 0 /\ \A i \in 2..Len(p) : is_free(occ, p[i])
        THEN p ELSE <<>>

-----------------------------------------------------------------------------
(* Observation of a handler: the events it emits, in order *)

Ev(e, a, b) == [e |-> e, a |-> a, b |-> b]
Log(self, e) == [self EXCEPT !.out = Append(@, Ev(e, "", ""))]

\* an exception (attribute access on None) unwinds out of the handler
Raise(self) == [Log(self, "exception") EXCEPT !.raised = TRUE]

Snap(self) ==
    [mode |-> self.mode, is_planned |-> self.is_planned, plan |-> self.plan,
     plan_start_time |-> self.plan_start_time, goal |-> self.goal,
     V_prev |-> self.V_prev, t_prev |-> self.t_prev, om_prev |-> self.om_prev]

-----------------------------------------------------------------------------
(* TrajectoryPlan *)

\* length of an axis-parallel segment between two waypoints
SegLen(a, b) == Abs(a.x - b.x) + Abs(a.y - b.y)

RECURSIVE total_distance(_)
total_distance(path) ==
    IF Len(path) < 2 THEN 0
    ELSE SegLen(path[1], path[2]) + total_distance(Tail(path))

\* TrajectoryPlan.desired_state(t): the spline through evenly spaced,
\* collinear waypoints is the line from the first to the last waypoint,
\* traversed in `duration`; the heading is that of its velocity.
desired_state(p, t) ==
    LET n  == Len(p.path)
        dx == p.path[n].x - p.path[1].x
        dy == p.path[n].y - p.path[1].y
    IN  [x     |-> p.path[1].x + (dx * t) \div p.duration,
         y     |-> p.path[1].y + (dy * t) \div p.duration,
         theta |-> arctan2(dy, dx)]

-----------------------------------------------------------------------------
(* BaseNavigator: helpers *)

\* variant: the transition is logged also when the mode is already active
switch_mode_always_logs(self, new_mode) ==
    [self EXCEPT !.out = Append(@, Ev("switch", self.mode, new_mode)),
                 !.mode = new_mode]

switch_mode(self, new_mode) ==
    IF self.mode # new_mode
    THEN [self EXCEPT !.out = Append(@, Ev("switch", self.mode, new_mode)),
                      !.mode = new_mode]
    ELSE self

\* BaseController.stop(): publish a zero velocity command
stop(self) == Log(self, "stop")

\* variant: the near-goal test reads the deviation threshold
near_goal_plan_thresh(self) ==
    distance_linear_sq(self.state, Val(self.goal)) < plan_thresh * plan_thresh

near_goal(self) ==
    distance_linear_sq(self.state, Val(self.goal)) < near_thresh * near_thresh

\* variant: the alignment test reads the goal-heading threshold
aligned_at_thresh(self, target) ==
    distance_angular(self.state, target) < at_thresh_theta

aligned(self, target) ==
    distance_angular(self.state, target) < theta_start_thresh

\* variant: a deviation equal to the threshold still counts as close
close_to_plan_inclusive(self, clock) ==
    LET t == clock - self.plan_start_time
    IN  distance_linear_sq(self.state, desired_state(Val(self.plan), t))
            <= plan_thresh * plan_thresh

close_to_plan(self, clock) ==
    LET t == clock - self.plan_start_time
    IN  distance_linear_sq(self.state, desired_state(Val(self.plan), t))
            < plan_thresh * plan_thresh

can_compute_control(self) == self.is_planned

compute_heading_control(self, st, g) ==
    LET heading_error == wrap_angle(g.theta - st.theta)
        omega == kp * heading_error
    IN  [kind |-> "heading", v |-> 0, omega |-> omega]

\* TurtleBotControl(): the zero command
ZeroControl == [kind |-> "zero", v |-> 0, omega |-> 0]

-----------------------------------------------------------------------------
(* BaseNavigator.compute_trajectory_plan: returns the navigator after the *)
(* call and the plan (None when planning failed).                         *)

\* np.linspace(lo, hi, n): n evenly spaced values from lo to hi, as exact
\* fractions num / den; they are the knots of the two splines of the plan
linspace(lo, hi, n) ==
    [i \in 1..n |-> [num |-> lo * (n - 1) + (hi - lo) * (i - 1), den |-> n - 1]]

\* variant: only the previous speed is reset
build_plan_speed_only(self, path) ==
    [self |-> [self EXCEPT !.V_prev = 0],
     ret  |-> Some([path |-> path,
                    times |-> linspace(0, total_distance(path) \div V_max,
                                       Len(path)),
                    duration |-> total_distance(path) \div V_max])]

\* Steps 3 to 6: reset the controller, time the path, construct the plan
build_plan(self, path) ==
    [self |-> [self EXCEPT !.V_prev = 0, !.t_prev = 0],
     ret  |-> Some([path |-> path,
                    times |-> linspace(0, total_distance(path) \div V_max,
                                       Len(path)),
                    duration |-> total_distance(path) \div V_max])]

\* Step 2: no path, or fewer than 4 waypoints, is a failure
plan_from(self, path) ==
    IF path = <<>> \/ Len(path) < 4
    THEN [self |-> self, ret |-> None]
    ELSE build_plan(self, path)

compute_trajectory_plan(self, st, g, occ) ==
    plan_from(Log(self, "search"), AStarSolve(st, g, occ))

-----------------------------------------------------------------------------
(* BaseNavigator.replan *)

\* no need to use the heading controller if already aligned
accept_mode(self, clock) ==
    IF aligned(self, desired_state(Val(self.plan), 0))
    THEN switch_mode([self EXCEPT !.plan_start_time = clock], "TRACK")
    ELSE switch_mode(self, "ALIGN")

\* planning succeeded: accept the new plan and publish its paths
replan_accept(self, new_plan, clock) ==
    accept_mode(Log([self EXCEPT !.is_planned = TRUE, !.plan = new_plan],
                    "paths_published"), clock)

\* variant: a failed search falls back to IDLE
replan_planned_idle(r, clock) ==
    IF r.ret = None
    THEN switch_mode(Log([r.self EXCEPT !.is_planned = FALSE], "nav_failed"),
                     "IDLE")
    ELSE replan_accept(r.self, r.ret, clock)

\* variant: a failed search drops the current plan
replan_planned_clears_plan(r, clock) ==
    IF r.ret = None
    THEN Log([r.self EXCEPT !.is_planned = FALSE, !.plan = None], "nav_failed")
    ELSE replan_accept(r.self, r.ret, clock)

\* planning failed, or planning succeeded
replan_planned(r, clock) ==
    IF r.ret = None
    THEN Log([r.self EXCEPT !.is_planned = FALSE], "nav_failed")
    ELSE replan_accept(r.self, r.ret, clock)

\* variant: the robot is not stopped before the search
replan_search_no_stop(self, g, clock) ==
    replan_planned(
        compute_trajectory_plan(self, self.state, g, Val(self.occupancy)),
        clock)

\* stop the robot, then plan with A*
replan_search(self, g, clock) ==
    replan_planned(
        compute_trajectory_plan(stop(self), self.state, g, Val(self.occupancy)),
        clock)

\* no need to plan if close to the target
replan_with_goal(self, g, clock) ==
    IF near_goal(self)
    THEN switch_mode([self EXCEPT !.is_planned = TRUE], "PARK")
    ELSE replan_search(self, g, clock)

\* variant: the goal is stored before the map is looked at
replan_goal_first(self, g, clock) ==
    IF self.occupancy = None
    THEN Log([self EXCEPT !.goal = Some(g)], "warn_no_map")
    ELSE replan_with_goal([self EXCEPT !.goal = Some(g)], g, clock)

replan(self, g, clock) ==
    IF self.occupancy = None
    THEN Log(self, "warn_no_map")
    ELSE replan_with_goal([self EXCEPT !.goal = Some(g)], g, clock)

\* a call of replan as the handlers make it, observed: the navigator on
\* entry and on return
Entered(self) == [Log(self, "replan") EXCEPT !.rpre = Some(Snap(self))]
Returned(r) == [r EXCEPT !.rpost = Some(Snap(r))]
call_replan(self, g, clock) == Returned(replan(Entered(self), g, clock))

-----------------------------------------------------------------------------
(* BaseNavigator.map_callback *)

\* variant: the first waypoint of the plan is checked as well
map_checked_whole_path(self, msg, clock) ==
    IF self.is_planned /\ self.plan = None
    THEN Raise(self)
    ELSE IF self.is_planned
       /\ ~(\A i \in 1..Len(Val(self.plan).path) : is_free(msg, Val(self.plan).path[i]))
    THEN call_replan([self EXCEPT !.is_planned = FALSE], Val(self.goal), clock)
    ELSE self

\* replan if the new map causes a collision in the original plan
map_checked(self, msg, clock) ==
    IF self.is_planned /\ self.plan = None
    THEN Raise(self)
    ELSE IF self.is_planned
       /\ ~(\A i \in 2..Len(Val(self.plan).path) : is_free(msg, Val(self.plan).path[i]))
    THEN call_replan([self EXCEPT !.is_planned = FALSE], Val(self.goal), clock)
    ELSE self

map_callback(self, msg, clock) ==
    map_checked([self EXCEPT !.occupancy = Some(msg)], msg, clock)

-----------------------------------------------------------------------------
(* BaseNavigator.compute_trajectory_tracking_control; a and om stand for   *)
(* the acceleration and angular rate the feedback law computes.            *)

compute_trajectory_tracking_control(self, t, a, om) ==
    [self EXCEPT !.tin = Some([t |-> t, V_prev |-> self.V_prev,
                               t_prev |-> self.t_prev, om_prev |-> self.om_prev]),
                 !.t_prev = t,
                 !.V_prev = Max(self.V_prev, V_PREV_THRES) + a * (t - self.t_prev),
                 !.om_prev = om,
                 !.cmd = Some([kind |-> "track",
                               v |-> Max(self.V_prev, V_PREV_THRES)
                                       + a * (t - self.t_prev),
                               omega |-> om])]

(* BaseNavigator.compute_control *)

\* variant: in TRACK the timeout is tested before the near-goal distance
mode_switch_timeout_first(self, clock) ==
    IF self.mode = "ALIGN"
    THEN IF aligned(self, desired_state(Val(self.plan), 0))
         THEN switch_mode([self EXCEPT !.plan_start_time = clock], "TRACK")
         ELSE self
    ELSE IF self.mode = "TRACK"
    THEN IF clock - self.plan_start_time > Val(self.plan).duration
         THEN call_replan([Log(self, "info_timeout") EXCEPT !.is_planned = FALSE],
                          Val(self.goal), clock)
         ELSE IF near_goal(self)
         THEN Log(switch_mode(self, "PARK"), "nav_success")
         ELSE IF ~close_to_plan(self, clock)
         THEN call_replan([Log(self, "info_drift") EXCEPT !.is_planned = FALSE],
                          Val(self.goal), clock)
         ELSE self
    ELSE IF self.mode = "PARK"
    THEN IF aligned(self, Val(self.goal))
         THEN switch_mode([self EXCEPT !.is_planned = FALSE], "IDLE")
         ELSE self
    ELSE self

\* variant: ALIGN enters TRACK without recording the plan start time
mode_switch_stale_start(self, clock) ==
    IF self.mode = "ALIGN"
    THEN IF aligned(self, desired_state(Val(self.plan), 0))
         THEN switch_mode(self, "TRACK")
         ELSE self
    ELSE IF self.mode = "TRACK"
    THEN IF near_goal(self)
         THEN Log(switch_mode(self, "PARK"), "nav_success")
         ELSE IF clock - self.plan_start_time > Val(self.plan).duration
         THEN call_replan([Log(self, "info_timeout") EXCEPT !.is_planned = FALSE],
                          Val(self.goal), clock)
         ELSE IF ~close_to_plan(self, clock)
         THEN call_replan([Log(self, "info_drift") EXCEPT !.is_planned = FALSE],
                          Val(self.goal), clock)
         ELSE self
    ELSE IF self.mode = "PARK"
    THEN IF aligned(self, Val(self.goal))
         THEN switch_mode([self EXCEPT !.is_planned = FALSE], "IDLE")
         ELSE self
    ELSE self

\* variant: PARK enters IDLE without clearing is_planned
mode_switch_idle_keeps_planned(self, clock) ==
    IF self.mode = "ALIGN"
    THEN IF aligned(self, desired_state(Val(self.plan), 0))
         THEN switch_mode([self EXCEPT !.plan_start_time = clock], "TRACK")
         ELSE self
    ELSE IF self.mode = "TRACK"
    THEN IF near_goal(self)
         THEN Log(switch_mode(self, "PARK"), "nav_success")
         ELSE IF clock - self.plan_start_time > Val(self.plan).duration
         THEN call_replan([Log(self, "info_timeout") EXCEPT !.is_planned = FALSE],
                          Val(self.goal), clock)
         ELSE IF ~close_to_plan(self, clock)
         THEN call_replan([Log(self, "info_drift") EXCEPT !.is_planned = FALSE],
                          Val(self.goal), clock)
         ELSE self
    ELSE IF self.mode = "PARK"
    THEN IF aligned(self, Val(self.goal))
         THEN switch_mode(self, "IDLE")
         ELSE self
    ELSE self

\* variant: PARK clears is_planned without entering IDLE
mode_switch_park_no_idle(self, clock) ==
    IF self.mode = "ALIGN"
    THEN IF aligned(self, desired_state(Val(self.plan), 0))
         THEN switch_mode([self EXCEPT !.plan_start_time = clock], "TRACK")
         ELSE self
    ELSE IF self.mode = "TRACK"
    THEN IF near_goal(self)
         THEN Log(switch_mode(self, "PARK"), "nav_success")
         ELSE IF clock - self.plan_start_time > Val(self.plan).duration
         THEN call_replan([Log(self, "info_timeout") EXCEPT !.is_planned = FALSE],
                          Val(self.goal), clock)
         ELSE IF ~close_to_plan(self, clock)
         THEN call_replan([Log(self, "info_drift") EXCEPT !.is_planned = FALSE],
                          Val(self.goal), clock)
         ELSE self
    ELSE IF self.mode = "PARK"
    THEN IF aligned(self, Val(self.goal))
         THEN [self EXCEPT !.is_planned = FALSE]
         ELSE self
    ELSE self

\* the state machine switch
mode_switch(self, clock) ==
    IF self.mode = "ALIGN"
    THEN IF aligned(self, desired_state(Val(self.plan), 0))
         THEN switch_mode([self EXCEPT !.plan_start_time = clock], "TRACK")
         ELSE self
    ELSE IF self.mode = "TRACK"
    THEN IF near_goal(self)
         THEN Log(switch_mode(self, "PARK"), "nav_success")
         ELSE IF clock - self.plan_start_time > Val(self.plan).duration
         THEN call_replan([Log(self, "info_timeout") EXCEPT !.is_planned = FALSE],
                          Val(self.goal), clock)
         ELSE IF ~close_to_plan(self, clock)
         THEN call_replan([Log(self, "info_drift") EXCEPT !.is_planned = FALSE],
                          Val(self.goal), clock)
         ELSE self
    ELSE IF self.mode = "PARK"
    THEN IF aligned(self, Val(self.goal))
         THEN switch_mode([self EXCEPT !.is_planned = FALSE], "IDLE")
         ELSE self
    ELSE self

\* compute control: the controller of the mode
control_dispatch(self, clock, a, om) ==
    IF self.mode = "ALIGN"
    THEN [self EXCEPT !.cmd = Some(compute_heading_control(
                             self, self.state, desired_state(Val(self.plan), 0)))]
    ELSE IF self.mode = "TRACK"
    THEN compute_trajectory_tracking_control(
             self, clock - self.plan_start_time, a, om)
    ELSE IF self.mode = "PARK"
    THEN [self EXCEPT !.cmd = Some(compute_heading_control(
                             self, self.state, Val(self.goal)))]
    ELSE [self EXCEPT !.cmd = Some(ZeroControl)]

compute_control(self, clock, a, om) ==
    control_dispatch(mode_switch(self, clock), clock, a, om)

\* the control timer of BaseController: publish a command when one can be
\* computed
Published(r) == Log(r, Val(r.cmd).kind)
publish_control(self, clock, a, om) ==
    IF can_compute_control(self)
    THEN Published(compute_control(self, clock, a, om))
    ELSE self

-----------------------------------------------------------------------------
(* The navigator as one record, and its write-back *)

Self(h, input) ==
    [mode |-> mode, is_planned |-> is_planned, plan_start_time |-> plan_start_time,
     plan |-> plan, goal |-> goal, occupancy |-> occupancy, state |-> state,
     V_prev |-> V_prev, t_prev |-> t_prev, om_prev |-> om_prev,
     op |-> h, arg |-> input, out |-> <<>>, cmd |-> None, rpre |-> None, rpost |-> None,
     tin |-> None, raised |-> raised]

Commit(r) ==
    /\ mode' = r.mode
    /\ is_planned' = r.is_planned
    /\ plan_start_time' = r.plan_start_time
    /\ plan' = r.plan
    /\ goal' = r.goal
    /\ occupancy' = r.occupancy
    /\ state' = r.state
    /\ V_prev' = r.V_prev
    /\ t_prev' = r.t_prev
    /\ om_prev' = r.om_prev
    /\ op' = r.op
    /\ arg' = r.arg
    /\ out' = r.out
    /\ cmd' = r.cmd
    /\ rpre' = r.rpre
    /\ rpost' = r.rpost
    /\ tin' = r.tin
    /\ raised' = r.raised

-----------------------------------------------------------------------------
(* __init__ *)

Init ==
    /\ mode = "IDLE"
    /\ is_planned = FALSE
    /\ now = 0
    /\ plan_start_time = 0
    /\ plan = None
    /\ goal = None
    /\ occupancy = None
    /\ state = [x |-> 0, y |-> 0, theta |-> 0]
    /\ V_prev = 0
    /\ t_prev = 0
    /\ om_prev = 0
    /\ op = "init"
    /\ arg = None
    /\ out = <<>>
    /\ cmd = None
    /\ rpre = None
    /\ rpost = None
    /\ tin = None
    /\ raised = FALSE

(* /cmd_nav subscription: a goal request *)
GoalRequest ==
    \E g \in Goals :
        /\ ~raised
        /\ Commit(call_replan(Self("goal", Some(g)), g, now))
        /\ UNCHANGED now

(* /map subscription: a map update *)
MapUpdate ==
    \E m \in Maps :
        /\ ~raised
        /\ Commit(map_callback(Self("map", Some([data |-> m])), m, now))
        /\ UNCHANGED now

(* the control timer of BaseController: one tick; the speed is kept within *)
(* the bound of the model                                                  *)
Ticked(r) == r.V_prev <= MaxV /\ Commit(r)

ControlTick ==
    \E a \in Accels, om \in Omegas :
        /\ ~raised
        /\ can_compute_control(Self("tick", None))
        /\ Ticked(publish_control(Self("tick", None), now, a, om))
        /\ UNCHANGED now

(* the state subscription of BaseController: a new pose estimate *)
StateUpdate ==
    \E p \in Poses :
        /\ ~raised
        /\ p # state
        /\ Commit([Self("state", Some(p)) EXCEPT !.state = p])
        /\ UNCHANGED now

(* the clock advances *)
ClockAdvance ==
    /\ ~raised
    /\ now < MaxTime
    /\ now' = now + 1
    /\ Commit(Self("clock", None))

Next ==
    \/ GoalRequest
    \/ MapUpdate
    \/ ControlTick
    \/ StateUpdate
    \/ ClockAdvance

Spec == Init /\ [][Next]_vars

-----------------------------------------------------------------------------
(* Plan construction on its own: Steps 2 to 6 of compute_trajectory_plan   *)
(* applied to every waypoint sequence of a bounded set; the steps between  *)
(* waypoints differ, as they do between straight and diagonal grid moves.  *)

RECURSIVE PathFrom(_, _)
PathFrom(x, steps) ==
    IF steps = <<>> THEN <<Cell(x)>>
    ELSE <<Cell(x)>> \o PathFrom(x + Head(steps), Tail(steps))

TestPaths ==
    {PathFrom(0, s) : s \in UNION {[1..n -> 1..MaxStep] : n \in 2..(MaxWaypoints - 1)}}

InitPlan ==
    /\ mode = "IDLE"
    /\ is_planned = FALSE
    /\ now = 0
    /\ plan_start_time = 0
    /\ plan = None
    /\ goal = None
    /\ occupancy = None
    /\ state = [x |-> 0, y |-> 0, theta |-> 0]
    /\ V_prev \in {0, MaxV}
    /\ t_prev = 0
    /\ om_prev = 0
    /\ op = "init"
    /\ arg \in {Some(p) : p \in TestPaths}
    /\ out = <<>>
    /\ cmd = None
    /\ rpre = None
    /\ rpost = None
    /\ tin = None
    /\ raised = FALSE

\* the plan returned for the path is kept
PlanBuilt(r) == Commit([r.self EXCEPT !.plan = r.ret])

PlanPath ==
    /\ op = "init"
    /\ PlanBuilt(plan_from(Self("plan", arg), Val(arg)))
    /\ UNCHANGED now

NextPlan == PlanPath

SpecPlan == InitPlan /\ [][NextPlan]_vars

-----------------------------------------------------------------------------
(* One navigation run: the first map, one stored goal, and ticks that find *)
(* neither a timeout nor a drift. The control timer of BaseController      *)
(* fires periodically, so a tick that stays possible is eventually taken.  *)

MapFirst == occupancy = None /\ MapUpdate

GoalOnce == goal = None /\ GoalRequest

\* in TRACK: near the goal, or neither out of time nor far from the plan
OnPlan ==
    mode = "TRACK" =>
        \/ near_goal(Self("tick", None))
        \/ /\ now - plan_start_time <= Val(plan).duration
           /\ close_to_plan(Self("tick", None), now)

\* publish_control, with the result of each of its steps computed once
ControlTickOnPlan ==
    \E a \in Accels, om \in Omegas :
        /\ ~raised
        /\ can_compute_control(Self("tick", None))
        /\ OnPlan
        /\ \E s \in {mode_switch(Self("tick", None), now)} :
              \E r \in {Published(control_dispatch(s, now, a, om))} : Ticked(r)
        /\ UNCHANGED now

NextRun ==
    \/ MapFirst
    \/ GoalOnce
    \/ ControlTickOnPlan
    \/ StateUpdate
    \/ ClockAdvance

\* what a tick can write
tick_vars ==
    <<mode, is_planned, plan_start_time, plan, V_prev, t_prev, om_prev,
      op, out, cmd, rpre, rpost, tin>>

SpecRun == Init /\ [][NextRun]_vars /\ WF_tick_vars(ControlTickOnPlan)

TypeOK ==
    /\ mode \in NavMode
    /\ is_planned \in BOOLEAN
    /\ now \in 0..MaxTime
    /\ plan_start_time \in 0..MaxTime
    /\ state \in Poses \cup {[x |-> 0, y |-> 0, theta |-> 0]}
    /\ V_prev \in 0..MaxV

-----------------------------------------------------------------------------
(* Vocabulary of the properties *)

Has(log, e) == \E i \in DOMAIN log : log[i].e = e
Count(log, e) == Cardinality({i \in DOMAIN log : log[i].e = e})
Motion == {"heading", "track"}

\* the square of the distance between a pose and a position
Dist2(a, b) == (a.x - b.x) * (a.x - b.x) + (a.y - b.y) * (a.y - b.y)
\* the angular distance between two headings
AngDist(a, b) == Abs(((a - b + Pi) % (2 * Pi)) - Pi)

\* what the path search returns for the pose, the stored goal and the map
Searched == AStarSolve(state, Val(goal), Val(occupancy))
\* the last handler ran the path search and it failed / succeeded
SearchFailed == Has(out, "search") /\ Len(Searched) < 4
SearchSucceeded == Has(out, "search") /\ Len(Searched) >= 4

-----------------------------------------------------------------------------
\* C1: a goal request that arrives while no occupancy map has been received
\* returns without planning: no path search, no stop command, no success or
\* failure notification, and mode, plan, goal, plan start time and controller
\* state are unchanged; is_planned stays false.
C1_GoalWithoutMapIsDropped ==
    [][(op' = "goal" /\ occupancy = None) =>
          /\ ~Has(out', "search") /\ ~Has(out', "stop")
          /\ ~Has(out', "nav_failed") /\ ~Has(out', "nav_success")
          /\ Has(out', "warn_no_map")
          /\ mode' = mode /\ plan' = plan /\ goal' = goal
          /\ plan_start_time' = plan_start_time
          /\ V_prev' = V_prev /\ t_prev' = t_prev /\ om_prev' = om_prev
          /\ occupancy' = None
          /\ is_planned = FALSE /\ is_planned' = FALSE]_vars

C1_Witness ==
    op = "goal" /\ occupancy = None /\ Has(out, "warn_no_map") /\ goal = None

\* C2: a failed replan (no path, or fewer than 4 waypoints), from any mode,
\* leaves is_planned false, publishes exactly one failure notification and
\* leaves mode, plan, plan start time and the controller's previous speed and
\* previous time as they were on entry to the replan.
C2_FailedReplanKeepsState ==
    SearchFailed =>
        /\ rpre # None /\ rpost # None
        /\ Val(rpost).is_planned = FALSE
        /\ Count(out, "nav_failed") = 1 /\ ~Has(out, "nav_success")
        /\ Val(rpost).mode = Val(rpre).mode
        /\ Val(rpost).plan = Val(rpre).plan
        /\ Val(rpost).plan_start_time = Val(rpre).plan_start_time
        /\ Val(rpost).V_prev = Val(rpre).V_prev
        /\ Val(rpost).t_prev = Val(rpre).t_prev

C2_Witness ==
    /\ SearchFailed /\ Len(Searched) = 3 /\ op = "goal"
    /\ Val(rpre).mode = "TRACK" /\ mode = "TRACK" /\ Count(out, "nav_failed") = 1

\* C3: a control tick never returns a motion command (tracking or heading
\* control) while is_planned is false.
C3_NoMotionWhenNotPlanned ==
    (op = "tick" /\ ~is_planned) => Val(cmd).kind \notin Motion

\* C4: in every replan that invokes the path search, a stop command is issued
\* earlier in the same replan and no motion command is issued between the
\* stop and the search.
C4_StopBeforeSearch ==
    \A i \in DOMAIN out :
        out[i].e = "search" =>
            \E r, j \in 1..(i - 1) :
                /\ r < j
                /\ out[r].e = "replan"
                /\ out[j].e = "stop"
                /\ \A k \in (r + 1)..(i - 1) : out[k].e \notin Motion \cup {"replan"}

C4_Witness ==
    /\ op = "tick" /\ Has(out, "info_drift") /\ Has(out, "search")
    /\ Val(cmd).kind = "track"

\* C5: a goal request with a map available and the robot within the near-goal
\* distance of the new goal stores the goal, enters PARK, sets is_planned and
\* neither stops the robot, nor runs the path search, nor replaces the plan;
\* any other goal request with a map available runs the path search.
C5_NearGoalShortcut ==
    [][(op' = "goal" /\ occupancy # None) =>
          /\ goal' = arg'
          /\ IF Dist2(state, Val(arg')) < near_thresh * near_thresh
             THEN /\ mode' = "PARK" /\ is_planned'
                  /\ ~Has(out', "search") /\ ~Has(out', "stop")
                  /\ plan' = plan
             ELSE Count(out', "search") = 1]_vars

C5_Witness ==
    /\ op = "goal" /\ occupancy # None /\ mode = "PARK" /\ is_planned
    /\ plan = None /\ ~Has(out, "search")

\* the heading of the straight path from its first to its last waypoint
PathHeading(path) ==
    IF path[Len(path)].x >= path[1].x THEN 0 ELSE Pi

\* C6: when the path search of a replan succeeds (at least 4 waypoints) the
\* plan is replaced by the new plan, is_planned becomes true, and the mode
\* becomes TRACK, with the plan start time set to the current time, if the
\* heading is within the alignment threshold of the plan's initial heading,
\* and ALIGN otherwise.
C6_AcceptedPlanChoosesMode ==
    SearchSucceeded =>
        /\ rpost # None
        /\ Val(rpost).is_planned
        /\ Val(rpost).plan # None
        /\ Val(Val(rpost).plan).path = Searched
        /\ Val(Val(rpost).plan).duration * V_max = Len(Searched) - 1
        /\ IF AngDist(state.theta, PathHeading(Searched)) < theta_start_thresh
           THEN Val(rpost).mode = "TRACK" /\ Val(rpost).plan_start_time = now
           ELSE /\ Val(rpost).mode = "ALIGN"
                /\ Val(rpost).plan_start_time = Val(rpre).plan_start_time

\* a replan from PARK with an older, different plan, accepted into TRACK
C6_Witness ==
    /\ SearchSucceeded /\ op = "goal" /\ mode = "TRACK" /\ now > 0
    /\ plan_start_time = now
    /\ Val(rpre).plan # None /\ Val(rpre).plan # plan
    /\ Val(rpre).mode = "PARK"

C6_WitnessAlign ==
    SearchSucceeded /\ op = "map" /\ mode = "ALIGN" /\ Val(rpre).mode = "TRACK"

\* C7 as stated: on acceptance of a new plan the previous speed, the previous
\* angular rate and the previous time of the controller are all zero.
C7_AllThreeReset ==
    SearchSucceeded =>
        /\ Val(rpost).V_prev = 0
        /\ Val(rpost).t_prev = 0
        /\ Val(rpost).om_prev = 0

\* C7 (amended): on acceptance of a new plan the previous speed and the
\* previous time of the controller are reset to zero and the previous angular
\* rate keeps its value; whenever the mode enters TRACK, the tracking
\* controller starts from previous speed 0 and previous time 0.
C7_SpeedAndTimeReset ==
    /\ [](SearchSucceeded =>
            /\ Val(rpost).V_prev = 0
            /\ Val(rpost).t_prev = 0
            /\ Val(rpost).om_prev = Val(rpre).om_prev)
    /\ [][(mode' = "TRACK" /\ (mode # "TRACK" \/ SearchSucceeded')) =>
            IF tin' # None
            THEN Val(tin').V_prev = 0 /\ Val(tin').t_prev = 0
            ELSE V_prev' = 0 /\ t_prev' = 0]_vars

\* a plan accepted after tracking has left a non-zero previous speed, time
\* and angular rate
C7_Witness ==
    /\ SearchSucceeded /\ mode = "TRACK"
    /\ Val(rpre).V_prev > 0 /\ Val(rpre).t_prev > 0 /\ Val(rpre).om_prev # 0
    /\ Val(rpost).V_prev = 0 /\ Val(rpost).t_prev = 0

\* the waypoints after the first of the plan are all free in the map
PlanFree(p, m) == \A i \in 2..Len(p.path) : p.path[i] \notin m

\* C8: on a map update with a plan active, if a waypoint after the first of
\* the current plan is not free in the new map, the handler clears
\* is_planned and calls replan with the stored goal before it returns;
\* otherwise only the occupancy changes.
C8_MapUpdateInvalidatesPlan ==
    [][(op' = "map" /\ is_planned /\ plan # None) =>
          /\ occupancy' = Some(Val(arg').data)
          /\ IF ~PlanFree(Val(plan), Val(arg').data)
             THEN /\ Count(out', "replan") = 1
                  /\ rpre' # None
                  /\ Val(rpre').is_planned = FALSE
                  /\ Val(rpre').goal = goal
                  /\ goal' = goal
                  /\ ~raised'
             ELSE /\ out' = <<>> /\ rpre' = None
                  /\ mode' = mode /\ plan' = plan /\ goal' = goal
                  /\ is_planned' = is_planned
                  /\ plan_start_time' = plan_start_time
                  /\ V_prev' = V_prev /\ t_prev' = t_prev]_vars

\* the third of the waypoints is occupied by a map update in TRACK
C8_Witness ==
    /\ op = "map" /\ Has(out, "replan") /\ Val(rpre).mode = "TRACK"
    /\ Val(rpre).plan # None /\ Val(Val(rpre).plan).path[3] \in Val(occupancy)
    /\ ~is_planned

C8_WitnessFree ==
    /\ op = "map" /\ is_planned /\ mode = "TRACK" /\ out = <<>>
    /\ plan # None
    /\ Val(plan).path[1] \in Val(occupancy)

\* C9: a tick in TRACK with the robot within the near-goal distance enters
\* PARK, publishes exactly one success notification, attempts no replan even
\* if the plan has timed out or the robot has drifted, and returns the
\* heading control toward the goal heading.
C9_NearGoalParks ==
    [][(op' = "tick" /\ mode = "TRACK"
          /\ Dist2(state, Val(goal)) < near_thresh * near_thresh) =>
          /\ mode' = "PARK"
          /\ Count(out', "nav_success") = 1 /\ ~Has(out', "nav_failed")
          /\ ~Has(out', "replan") /\ ~Has(out', "search") /\ rpre' = None
          /\ is_planned' /\ plan' = plan /\ goal' = goal
          /\ cmd' = Some([kind |-> "heading", v |-> 0,
                          omega |-> kp * (((Val(goal).theta - state.theta + Pi)
                                             % (2 * Pi)) - Pi)])]_vars

\* near the goal in TRACK with the plan timed out
C9_Witness ==
    /\ op = "tick" /\ mode = "PARK" /\ Has(out, "nav_success")
    /\ plan # None
    /\ now - plan_start_time > Val(plan).duration
    /\ Val(cmd).omega # 0

\* the position the plan wants at time t: the straight path at V_max
Wanted(p, t) ==
    [x |-> IF p.path[Len(p.path)].x >= p.path[1].x
           THEN p.path[1].x + V_max * t ELSE p.path[1].x - V_max * t,
     y |-> p.path[1].y]

\* C10: a tick in TRACK with the robot not near the goal replans toward the
\* stored goal exactly when the time since the plan start exceeds the plan's
\* duration or the distance to the plan's desired position is at or above the
\* deviation threshold; at most one replan per tick; with neither, the mode
\* stays TRACK and plan, goal and is_planned are unchanged.
C10_TimeoutOrDriftReplans ==
    [][(op' = "tick" /\ mode = "TRACK"
          /\ ~(Dist2(state, Val(goal)) < near_thresh * near_thresh)) =>
          /\ Count(out', "replan") <= 1
          /\ IF \/ now - plan_start_time > Val(plan).duration
                \/ Dist2(state, Wanted(Val(plan), now - plan_start_time))
                      >= plan_thresh * plan_thresh
             THEN /\ Count(out', "replan") = 1
                  /\ Val(rpre').goal = goal /\ goal' = goal
                  /\ Val(rpre').is_planned = FALSE
             ELSE /\ ~Has(out', "replan")
                  /\ mode' = "TRACK" /\ plan' = plan /\ goal' = goal
                  /\ is_planned' = is_planned /\ is_planned'
                  /\ plan_start_time' = plan_start_time]_vars

\* a drift replan at the very end of the plan's duration (no timeout)
C10_Witness ==
    /\ op = "tick" /\ Has(out, "info_drift") /\ Count(out, "replan") = 1
    /\ tin # None /\ Val(tin).t = 0 /\ mode = "TRACK"
    /\ Val(rpre).plan_start_time + Val(Val(rpre).plan).duration = now

C10_WitnessTimeout == op = "tick" /\ Has(out, "info_timeout")
C10_WitnessStay ==
    /\ op = "tick" /\ mode = "TRACK" /\ ~Has(out, "replan")
    /\ tin # None /\ Val(tin).t > 0

-----------------------------------------------------------------------------
\* C11: a tick in ALIGN enters TRACK exactly when the heading error to the
\* plan's initial heading is below the alignment threshold; on that
\* transition the plan start time is recorded, so that the tracking
\* controller is queried at elapsed time 0 in that tick; otherwise the mode
\* stays ALIGN and the tick returns heading control toward the plan's initial
\* heading with zero linear speed.
C11_AlignEntersTrack ==
    [][(op' = "tick" /\ mode = "ALIGN") =>
          IF AngDist(state.theta, PathHeading(Val(plan).path)) < theta_start_thresh
          THEN /\ mode' = "TRACK"
               /\ plan_start_time' = now
               /\ tin' # None /\ Val(tin').t = 0
               /\ Val(cmd').kind = "track"
               /\ plan' = plan /\ is_planned'
          ELSE /\ mode' = "ALIGN"
               /\ plan_start_time' = plan_start_time
               /\ tin' = None
               /\ cmd' = Some([kind |-> "heading", v |-> 0,
                               omega |-> kp * (((PathHeading(Val(plan).path)
                                                   - state.theta + Pi)
                                                  % (2 * Pi)) - Pi)])
               /\ plan' = plan /\ is_planned']_vars

\* ALIGN entered TRACK in a tick later than the replan that accepted the plan
C11_Witness ==
    /\ op = "tick" /\ mode = "TRACK" /\ out[1] = Ev("switch", "ALIGN", "TRACK")
    /\ now > 0 /\ plan_start_time = now /\ tin # None /\ Val(tin).t = 0

C11_WitnessStay ==
    op = "tick" /\ mode = "ALIGN" /\ cmd # None /\ Val(cmd).omega # 0

\* C12: a tick in PARK enters IDLE exactly when the angular distance between
\* the current heading and the goal heading is below the goal-heading
\* threshold (at_thresh_theta); then is_planned is cleared and the zero
\* command is returned; otherwise the mode stays PARK and the tick returns
\* heading control toward the goal heading.
C12_ParkEntersIdle ==
    [][(op' = "tick" /\ mode = "PARK") =>
          IF AngDist(state.theta, Val(goal).theta) < at_thresh_theta
          THEN /\ mode' = "IDLE" /\ ~is_planned'
               /\ cmd' = Some(ZeroControl)
          ELSE /\ mode' = "PARK"
               /\ Val(cmd').kind = "heading"]_vars

\* C14: switch_mode is idempotent: called with the active mode it logs no
\* transition and changes nothing (mode and controller state included);
\* called with another mode it logs exactly one old->new transition and sets
\* the mode; so every change of the mode is announced exactly once, and a
\* handler that leaves the mode alone announces nothing.
C14_SwitchModeIdempotent ==
    /\ [](\A m \in NavMode :
            switch_mode(Self("switch", None), m)
              = IF m = mode
                THEN Self("switch", None)
                ELSE [Self("switch", None) EXCEPT
                         !.mode = m, !.out = <<Ev("switch", mode, m)>>])
    /\ [][IF mode' = mode
          THEN Count(out', "switch") = 0
          ELSE /\ Count(out', "switch") = 1
               /\ \E i \in DOMAIN out' : out'[i] = Ev("switch", mode, mode')]_vars

\* a replan in TRACK accepted a plan and re-entered TRACK
C14_Witness ==
    /\ SearchSucceeded /\ rpre # None /\ Val(rpre).mode = "TRACK"
    /\ mode = "TRACK" /\ ~Has(out, "switch")

C14_WitnessChange ==
    op = "tick" /\ mode = "PARK" /\ Has(out, "switch")

\* C15: every evaluation of the current plan by the control tick (the drift
\* check and the tracking controller) uses a query time within [0, duration].
C15_QueryWithinPlanDomain ==
    /\ (tin # None /\ plan # None) =>
           Val(tin).t \in 0 .. Val(plan).duration
    /\ (op = "tick" /\ Has(out, "info_drift") /\ rpre # None) =>
           (now - Val(rpre).plan_start_time)
               \in 0 .. Val(Val(rpre).plan).duration

\* C17: the first tracking-controller call after a plan reset (previous
\* speed and previous time still 0) has elapsed time t - t_prev = 0, so the
\* commanded speed is the clamped previous speed whatever the acceleration.
C17_FirstCallZeroIntegration ==
    (tin # None /\ Val(tin).V_prev = 0 /\ Val(tin).t_prev = 0) =>
        /\ Val(tin).t - Val(tin).t_prev = 0
        /\ Val(cmd).v = Max(Val(tin).V_prev, V_PREV_THRES)

\* C18: is_planned implies that a plan exists, so the waypoint check of a map
\* update never raises out of the handler.
C18_PlannedHasPlan ==
    /\ is_planned => plan # None
    /\ ~raised

\* C19: mode ALIGN or TRACK implies that a plan exists, and mode PARK implies
\* that a goal exists.
C19_ModeHasPlanOrGoal ==
    /\ mode \in {"ALIGN", "TRACK"} => plan # None
    /\ mode = "PARK" => goal # None

\* a replan in TRACK failed: the mode is still TRACK and the old plan is kept
C19_Witness ==
    /\ mode = "TRACK" /\ ~is_planned /\ Has(out, "nav_failed") /\ plan # None

\* parked by the near-goal shortcut before any plan was made
C19_WitnessPark ==
    /\ mode = "PARK" /\ plan = None /\ goal # None

\* C20: mode IDLE implies that is_planned is false; the mode becomes IDLE only
\* by the PARK -> IDLE transition of a tick, which clears is_planned, and no
\* goal request or map update leaves the mode IDLE with is_planned true.
C20_IdleIsNotPlanned ==
    /\ [](mode = "IDLE" => ~is_planned)
    /\ [][(mode' = "IDLE" /\ mode # "IDLE") =>
             (mode = "PARK" /\ op' = "tick" /\ ~is_planned')]_vars
    /\ [][(op' \in {"goal", "map"} /\ mode' = "IDLE") => ~is_planned']_vars

\* a tick in PARK entered IDLE
C20_Witness ==
    /\ op = "tick" /\ mode = "IDLE" /\ ~is_planned
    /\ Has(out, "switch") /\ goal # None

\* C16: plan construction gives each waypoint the time stamp
\* (cumulative arc length up to the waypoint) / V_max, also for unevenly
\* spaced waypoints, and the duration is (total path length) / V_max.
C16_TimesFollowArcLength ==
    (op = "plan" /\ plan # None) =>
        /\ \A i \in DOMAIN Val(plan).path :
              Val(plan).times[i].num * V_max
                = total_distance(SubSeq(Val(plan).path, 1, i)) * Val(plan).times[i].den
        /\ Val(plan).duration * V_max = total_distance(Val(plan).path)

\* the mode changes of one navigation run
RunEdges ==
    {<<"IDLE", "ALIGN">>, <<"IDLE", "TRACK">>, <<"ALIGN", "TRACK">>,
     <<"TRACK", "PARK">>, <<"PARK", "IDLE">>}

\* the robot is within the near-goal distance and the heading threshold of
\* the goal
Arrived ==
    /\ goal # None
    /\ Dist2(state, Val(goal)) < near_thresh * near_thresh
    /\ AngDist(state.theta, Val(goal).theta) < theta_start_thresh

====
